---- MODULE Spec2Model ----
(***************************************************************************)
(* pkger (minio/pkger, main.go): the release-packaging CLI.                *)
(*                                                                         *)
(* Strings are sequences of one-character strings, so that Split, Parse,   *)
(* Format, HasPrefix and the semantic-version pattern work on characters   *)
(* the way the Go code does.                                               *)
(***************************************************************************)
EXTENDS Integers, Sequences, FiniteSets, TLC

VARIABLES
    appName,            \* flag --appName
    release,            \* flag --release
    noPackages,         \* flag --no-pkg
    ignoreMissingArch,  \* flag --ignore
    edge,               \* flag --edge
    packager,           \* flag --packager
    releaseDir,         \* flag --releaseDir
    present,            \* environment: architectures whose package inputs exist
    fs,                 \* the file system: path -> file
    fs0,                \* the file system when the run started
    pc,                 \* position of the run
    archIdx,            \* doPackage: index of the architecture being packaged
    pkgIdx,             \* doPackage: index of the packager being used
    semVerTag,          \* doPackage: the package version
    attempted,          \* <<arch, packager>> pairs whose packaging was started
    created,            \* package paths reported "created package"
    pkgErr,             \* what doPackage returned ("nil", an error, or "none")
    d,                  \* main: the manifest generator's call
    result,             \* a direct call's outcome (semVerRelease)
    stdout,             \* lines main printed
    deps,               \* flag --deps
    entry               \* what is run: main, or a function called directly

vars == <<appName, release, noPackages, ignoreMissingArch, edge, packager,
          releaseDir, present, fs, fs0, pc, archIdx, pkgIdx, semVerTag,
          attempted, created, pkgErr, d, result, stdout, deps, entry>>

flags == <<appName, release, noPackages, ignoreMissingArch, edge, packager,
           releaseDir, present, fs0, deps, entry>>

-----------------------------------------------------------------------------
(* Characters and strings *)

Digits == <<"0", "1", "2", "3", "4", "5", "6", "7", "8", "9">>

isDigit(c) == \E i \in 1..Len(Digits) : Digits[i] = c

DigitVal(c) == (CHOOSE i \in 1..Len(Digits) : Digits[i] = c) - 1

DigitChar(n) == Digits[n + 1]

Tail2(s, n) == SubSeq(s, n + 1, Len(s))

RECURSIVE Join(_, _)
Join(parts, sep) ==
    IF Len(parts) = 0 THEN <<>>
    ELSE IF Len(parts) = 1 THEN parts[1]
    ELSE parts[1] \o sep \o Join(Tail(parts), sep)

HasPrefix(s, prefix) ==
    /\ Len(s) >= Len(prefix)
    /\ SubSeq(s, 1, Len(prefix)) = prefix

TrimPrefix(s, prefix) ==
    IF HasPrefix(s, prefix) THEN Tail2(s, Len(prefix)) ELSE s

RECURSIVE SplitFrom(_, _, _)
SplitFrom(s, sep, cur) ==
    IF Len(s) = 0 THEN <<cur>>
    ELSE IF Head(s) = sep THEN <<cur>> \o SplitFrom(Tail(s), sep, <<>>)
    ELSE SplitFrom(Tail(s), sep, Append(cur, Head(s)))

Split(s, sep) == SplitFrom(s, sep, <<>>)

-----------------------------------------------------------------------------
(* time.Parse(minioReleaseTagTimeLayout, value) and                         *)
(* Time.Format(minioPkgReleaseTagTimeLayout)                                *)

ParseError == [ok |-> FALSE]

\* getnum(value, fixed): a one- or two-digit number and the rest of value
getnum(value, fixed) ==
    IF Len(value) = 0 \/ ~isDigit(value[1]) THEN ParseError
    ELSE IF Len(value) < 2 \/ ~isDigit(value[2])
         THEN IF fixed THEN ParseError
              ELSE [ok |-> TRUE, n |-> DigitVal(value[1]), rest |-> Tail2(value, 1)]
         ELSE [ok |-> TRUE, n |-> DigitVal(value[1]) * 10 + DigitVal(value[2]),
               rest |-> Tail2(value, 2)]

\* the four-digit year of the layout element "2006"
getyear(value) ==
    IF Len(value) < 4 \/ \E i \in 1..4 : ~isDigit(value[i]) THEN ParseError
    ELSE [ok |-> TRUE,
          n |-> DigitVal(value[1]) * 1000 + DigitVal(value[2]) * 100
                + DigitVal(value[3]) * 10 + DigitVal(value[4]),
          rest |-> Tail2(value, 4)]

\* a literal chunk of the layout
skip(value, prefix) ==
    IF HasPrefix(value, prefix)
    THEN [ok |-> TRUE, rest |-> TrimPrefix(value, prefix)]
    ELSE ParseError

RECURSIVE skipDigits(_)
skipDigits(value) ==
    IF Len(value) > 0 /\ isDigit(value[1]) THEN skipDigits(Tail(value)) ELSE value

\* a fractional second the layout does not name is accepted after the seconds
skipFraction(value) ==
    IF Len(value) >= 2 /\ value[1] \in {".", ","} /\ isDigit(value[2])
    THEN skipDigits(Tail2(value, 2))
    ELSE value

isLeap(year) == year % 4 = 0 /\ (year % 100 # 0 \/ year % 400 = 0)

daysIn(month, year) ==
    IF month = 2 THEN (IF isLeap(year) THEN 29 ELSE 28)
    ELSE IF month \in {4, 6, 9, 11} THEN 30 ELSE 31

\* the parse so far (the numbers read and the rest of the value), one number on
Read(p, g) ==
    IF g.ok THEN [ok |-> TRUE, nums |-> Append(p.nums, g.n), rest |-> g.rest]
    ELSE ParseError

AfterLiteral(p, s, fixed) ==
    IF s.ok THEN Read(p, getnum(s.rest, fixed)) ELSE ParseError

\* the layout's next element: a literal and then a number of one or two digits
Element(p, literal, fixed) ==
    IF p.ok THEN AfterLiteral(p, skip(p.rest, literal), fixed) ELSE ParseError

\* the layout's end: the literal Z and nothing after it
EndOfLayout(p) ==
    IF p.ok THEN skip(skipFraction(p.rest), <<"Z">>) ELSE ParseError

\* year, month, day, hour, minute and second, in the order of the layout
parseFields(value) ==
    Element(
      Element(
        Element(
          Element(
            Element(Read([nums |-> <<>>], getyear(value)), <<"-">>, TRUE),
            <<"-">>, TRUE),
          <<"T">>, FALSE),
        <<"-">>, TRUE),
      <<"-">>, TRUE)

\* the range checks of the parsed numbers
checkedTime(n) ==
    IF n[2] <= 0 \/ 12 < n[2] THEN ParseError
    ELSE IF 24 <= n[4] \/ 60 <= n[5] \/ 60 <= n[6] THEN ParseError
    ELSE IF n[3] < 1 \/ n[3] > daysIn(n[2], n[1]) THEN ParseError
    ELSE [ok |-> TRUE, year |-> n[1], month |-> n[2], day |-> n[3],
          hour |-> n[4], min |-> n[5], sec |-> n[6]]

parsedTime(p, z) ==
    IF ~z.ok \/ Len(z.rest) # 0 THEN ParseError ELSE checkedTime(p.nums)

parseEnd(p) == parsedTime(p, EndOfLayout(p))

timeParse(value) == parseEnd(parseFields(value))

pad2(n) == <<DigitChar(n \div 10), DigitChar(n % 10)>>

pad4(n) == <<DigitChar(n \div 1000), DigitChar((n \div 100) % 10)>> \o pad2(n % 100)

\* as timeFormat, with the hour on the 12-hour clock (layout 03 for 15)
timeFormat12h(t) ==
    pad4(t.year) \o pad2(t.month) \o pad2(t.day)
        \o pad2(IF t.hour % 12 = 0 THEN 12 ELSE t.hour % 12) \o pad2(t.min) \o pad2(t.sec)

timeFormat(t) ==
    pad4(t.year) \o pad2(t.month) \o pad2(t.day)
        \o pad2(t.hour) \o pad2(t.min) \o pad2(t.sec)

-----------------------------------------------------------------------------
(* releaseTagToReleaseTime and semVerRelease *)

RELEASE == <<"R", "E", "L", "E", "A", "S", "E">>

parsedTag(fields, t) ==
    IF t.ok THEN [err |-> FALSE, releaseTime |-> t, fields |-> fields]
    ELSE [err |-> TRUE]

\* as checkedTag, without the check of the first field
checkedTagAnyMarker(fields) ==
    IF Len(fields) < 2 \/ Len(fields) > 4 THEN [err |-> TRUE]
    ELSE parsedTag(fields, timeParse(fields[2]))

checkedTag(fields) ==
    IF Len(fields) < 2 \/ Len(fields) > 4 THEN [err |-> TRUE]
    ELSE IF fields[1] # RELEASE THEN [err |-> TRUE]
    ELSE parsedTag(fields, timeParse(fields[2]))

releaseTagToReleaseTime(releaseTag) == checkedTag(Split(releaseTag, "."))

Panic == [panic |-> TRUE]

hotfixOf(fields) ==
    IF Len(fields) = 4 THEN fields[3] \o <<".">> \o fields[4] ELSE <<>>

withHotfix(rtime, hotfixStr) ==
    IF hotfixStr # <<>>
    THEN [panic |-> FALSE,
          value |-> timeFormat(rtime) \o <<".", "0", ".", "0", ".">> \o hotfixStr]
    ELSE [panic |-> FALSE, value |-> timeFormat(rtime) \o <<".", "0", ".", "0">>]

semVerOf(r) ==
    IF r.err THEN Panic ELSE withHotfix(r.releaseTime, hotfixOf(r.fields))

semVerRelease(rel) == semVerOf(releaseTagToReleaseTime(rel))

-----------------------------------------------------------------------------
(* Names the program uses *)

AppNames == {"minio", "mc", "minio-enterprise", "mc-enterprise", "sidekick", "warp"}

Archs == <<"amd64", "arm64", "ppc64le">>

DEB == <<"d", "e", "b">>
RPM == <<"r", "p", "m">>
APK == <<"a", "p", "k">>

\* the values the --packager Enum admits
PackagerValues == {DEB, RPM, APK, DEB \o <<",">> \o RPM \o <<",">> \o APK}

\* the values of --releaseDir the model tries ("" is the flag's default)
ReleaseDirValues == {"", "dist"}

releaseDirName ==
    IF releaseDir # "" THEN releaseDir
    ELSE (CASE appName = "minio-enterprise" -> "minio"
            [] appName = "mc-enterprise"    -> "mc"
            [] OTHER                        -> appName) \o "-release"

\* as archAllowed, without the clause for warp
archAllowedButWarp(app, arch) ==
    /\ ~(app = "minio-enterprise" /\ arch # "amd64" /\ arch # "arm64")
    /\ ~(app = "mc-enterprise" /\ arch # "amd64" /\ arch # "arm64")
    /\ ~(app = "sidekick" /\ arch # "amd64" /\ arch # "arm64")

\* the architecture filter at the head of doPackage's loop
archAllowed(app, arch) ==
    /\ ~(app = "minio-enterprise" /\ arch # "amd64" /\ arch # "arm64")
    /\ ~(app = "mc-enterprise" /\ arch # "amd64" /\ arch # "arm64")
    /\ ~(app = "sidekick" /\ arch # "amd64" /\ arch # "arm64")
    /\ ~(app = "warp" /\ arch # "amd64" /\ arch # "arm64")

\* as tmplApp, the package named after its binary
tmplAppAsBinary(app) ==
    IF app = "minio-enterprise" THEN "minio"
    ELSE IF app = "mc-enterprise" THEN "mc"
    ELSE app

\* releaseTmpl.App: the package name
tmplApp(app) ==
    IF app = "minio-enterprise" THEN "minio"
    ELSE IF app = "mc" \/ app = "mc-enterprise" THEN "mcli"
    ELSE app

\* releaseTmpl.Binary: the name of the binary that is packaged
tmplBinary(app) ==
    IF app = "minio-enterprise" THEN "minio"
    ELSE IF app = "mc-enterprise" THEN "mc"
    ELSE app

\* the name of the convenience symlink, without its extension
linkName(app) == IF app = "minio-enterprise" THEN "minio" ELSE app

-----------------------------------------------------------------------------
(* The file system.  A path is [root, dir, name]; a name is a record of     *)
(* the parts the file name is put together from.                            *)

NoVersion == <<>>

\* pkg.ConventionalFileName(info): name, version, architecture and format
releasePkgName(app, ver, arch, pkger) ==
    [kind |-> "package", app |-> tmplApp(app), version |-> ver, arch |-> arch,
     ext |-> pkger]

\* tgtPath + ".sha256sum"
shasumName(pkgName) == [pkgName EXCEPT !.kind = "sha256sum"]

\* <app> + filepath.Ext(tgtPath)
symlinkName(app, pkger) ==
    [kind |-> "symlink", app |-> linkName(app), version |-> NoVersion, arch |-> "",
     ext |-> pkger]

\* as outputFilename, without the test of --edge
outputFilenameStable ==
    [kind |-> "downloads", app |-> appName, version |-> NoVersion,
     arch |-> "", ext |-> <<"j", "s", "o", "n">>]

\* "downloads-" + appName + ("-edge") + ".json"
outputFilename ==
    [kind |-> "downloads", app |-> appName, version |-> NoVersion,
     arch |-> IF edge THEN "-edge" ELSE "", ext |-> <<"j", "s", "o", "n">>]

archDir(arch) == "linux-" \o arch

Path(dir, name) == [root |-> releaseDirName, dir |-> dir, name |-> name]

tgtPathOf(app, ver, arch, pkger) ==
    Path(archDir(arch), releasePkgName(app, ver, arch, pkger))

outputPath == Path("", outputFilename)

Exists(f, p) == p \in DOMAIN f

\* os.Create, os.WriteFile: the file at p is (re)written with content c
WriteTo(f, p, c) ==
    [q \in (DOMAIN f) \cup {p} |-> IF q = p THEN [type |-> "file", content |-> c] ELSE f[q]]

\* os.Remove
Remove(f, p) == [q \in (DOMAIN f) \ {p} |-> f[q]]

\* os.Remove(link) followed by os.Symlink(target, link) in the directory of p
Symlink(f, p, target) ==
    [q \in (DOMAIN f) \cup {p} |-> IF q = p THEN [type |-> "symlink", content |-> target] ELSE f[q]]

\* The bytes the packaging library emits for a package, as the chunks it
\* hands to its writer.
NumChunks == 2

packageChunks(pkgName) == [i \in 1..NumChunks |-> [of |-> pkgName, chunk |-> i]]

sha256Sum(bytes) == [sha256 |-> bytes]

hexEncodeToString(sum) == [hex |-> "lowercase", of |-> sum]

\* as multiWrite, with the hash left out of the writer
multiWriteFileOnly(chunks, n) ==
    [file |-> SubSeq(chunks, 1, n), hash |-> <<>>]

\* io.MultiWriter(f, sh): every chunk goes to the file and then to the hash;
\* n is the number of chunks written before a write fails (all of them when
\* none does).
multiWrite(chunks, n) ==
    [file |-> SubSeq(chunks, 1, n), hash |-> SubSeq(chunks, 1, n)]

\* fmt.Sprintf("%s  %s", hex.EncodeToString(tgtShasum), releasePkg)
shasumLine(hashed, pkgName) ==
    [sum |-> hexEncodeToString(sha256Sum(hashed)), sep |-> "  ", name |-> pkgName]

-----------------------------------------------------------------------------
(* main's check of a warp release: strings.HasPrefix(release, "v") and the  *)
(* pattern ^\d+\.\d+\.\d+$ on the rest                                      *)

\* the pattern as its automaton: group is the digit group being read (1..3),
\* seen says whether that group has a digit yet
RECURSIVE semverPatternFrom(_, _, _)
semverPatternFrom(s, group, seen) ==
    IF Len(s) = 0 THEN group = 3 /\ seen
    ELSE IF isDigit(Head(s)) THEN semverPatternFrom(Tail(s), group, TRUE)
    ELSE IF Head(s) = "." /\ seen /\ group < 3
         THEN semverPatternFrom(Tail(s), group + 1, FALSE)
    ELSE FALSE

\* as semverPatternMatch, with \d* for the last group
semverPatternLoose(s) ==
    semverPatternFrom(s, 1, FALSE) \/ semverPatternFrom(s \o <<"0">>, 1, FALSE)

semverPatternMatch(s) == semverPatternFrom(s, 1, FALSE)

\* as warpVersion, the checked release returned as it is
warpVersionKeepV(rel) ==
    IF ~HasPrefix(rel, <<"v">>) THEN [fatal |-> TRUE]
    ELSE IF ~semverPatternMatch(TrimPrefix(rel, <<"v">>)) THEN [fatal |-> TRUE]
    ELSE [fatal |-> FALSE, value |-> rel]

\* the warp case of main's switch: a fatal error or the version handed on
warpVersion(rel) ==
    IF ~HasPrefix(rel, <<"v">>) THEN [fatal |-> TRUE]
    ELSE LET versionWithoutV == TrimPrefix(rel, <<"v">>)
         IN  IF ~semverPatternMatch(versionWithoutV) THEN [fatal |-> TRUE]
             ELSE [fatal |-> FALSE, value |-> versionWithoutV]

-----------------------------------------------------------------------------
(* The download manifests.  A URL is kept as its host, the segments of its   *)
(* path and its file name, a file name as the pieces fmt.Sprintf puts         *)
(* together; an instruction text as its command, the URL it downloads and     *)
(* the container images it names.                                             *)

\* a missing key of a Go map reads as the empty string
rpmArchMap(arch) ==
    IF arch = "amd64" THEN "x86_64" ELSE IF arch = "arm64" THEN "aarch64" ELSE ""

debArchMap(arch) ==
    IF arch = "amd64" THEN "amd64" ELSE IF arch = "arm64" THEN "arm64" ELSE ""

\* <name>, <name>.exe
binaryFile(name, ext) ==
    [stem |-> name, sep |-> "", version |-> NoVersion, rel |-> "", arch |-> "",
     ext |-> ext]

\* "%s-%s-1.%s.rpm"
rpmFile(stem, ver, arch) ==
    [stem |-> stem, sep |-> "-", version |-> ver, rel |-> "-1.",
     arch |-> rpmArchMap(arch), ext |-> ".rpm"]

\* "%s_%s_%s.deb"
debFile(stem, ver, arch) ==
    [stem |-> stem, sep |-> "_", version |-> ver, rel |-> "_",
     arch |-> debArchMap(arch), ext |-> ".deb"]

NoFile == binaryFile("", "")

\* the empty string of a dlInfo field that is not set
NoURL == [host |-> "", path |-> <<>>, file |-> NoFile, suffix |-> ""]

\* "https://dl.min.io/<base>/<segment>/<os>-<arch>/<file>"
downloadURL(base, segment, os, arch, file) ==
    [host |-> "dl.min.io", path |-> base \o <<segment, os \o "-" \o arch>>,
     file |-> file, suffix |-> ""]

\* "https://dl.min.io/<base>/<segment>/<os>-<arch>/<file>.sha256sum"
checksumURL(base, segment, os, arch, file) ==
    [host |-> "dl.min.io", path |-> base \o <<segment, os \o "-" \o arch>>,
     file |-> file, suffix |-> ".sha256sum"]

\* an instruction text: its first command, the URL in it, the images in it
text(command, url, images) == [command |-> command, url |-> url, images |-> images]

\* <image>:<tag>; an image named without a tag has the empty tag
imageRef(image, tag) == [image |-> image, tag |-> tag]

LATEST == <<"l", "a", "t", "e", "s", "t">>

dlInfo(txt, cksum, download) == [text |-> txt, cksum |-> cksum, download |-> download]

\* Bin of a platform: download, checksum and the text that fetches the download
binInfo(command, base, segment, os, arch, file) ==
    dlInfo(text(command, downloadURL(base, segment, os, arch, file), <<>>),
           checksumURL(base, segment, os, arch, file),
           downloadURL(base, segment, os, arch, file))

\* RPM: "dnf install <url>" unless another command is given
rpmInfo(command, base, segment, arch, stem, ver) ==
    dlInfo(text(command, downloadURL(base, segment, "linux", arch, rpmFile(stem, ver, arch)), <<>>),
           checksumURL(base, segment, "linux", arch, rpmFile(stem, ver, arch)),
           downloadURL(base, segment, "linux", arch, rpmFile(stem, ver, arch)))

\* DEB: "wget <url>", then dpkg
debInfo(base, segment, arch, stem, ver) ==
    dlInfo(text("wget", downloadURL(base, segment, "linux", arch, debFile(stem, ver, arch)), <<>>),
           checksumURL(base, segment, "linux", arch, debFile(stem, ver, arch)),
           downloadURL(base, segment, "linux", arch, debFile(stem, ver, arch)))

\* a dlInfo with a Text only
textInfo(command, images) == dlInfo(text(command, NoURL, images), NoURL, NoURL)

\* make(map[string]map[string]downloadJSON), and a map that was never made
EmptyMap == [k \in {} |-> TRUE]

\* downloadJSON{Text: ``}
EmptyEntry == [k \in {} |-> TRUE]

\* as pathSegment, whatever isEdge is
pathSegmentRelease(isEdge) == "release"

\* pathSegment of generateEnterpriseDownloadsJSON
pathSegment(isEdge) == IF isEdge THEN "edge" ELSE "release"

homebrewInfo(base, segment, arch, name) ==
    dlInfo(text("brew install", NoURL, <<>>),
           checksumURL(base, segment, "darwin", arch, binaryFile(name, "")),
           downloadURL(base, segment, "darwin", arch, binaryFile(name, "")))

\* the entries of mc-enterprise
mcEnterpriseLinux(seg, ver, arch) ==
    [Binary |-> binInfo("wget", <<"aistor", "mc">>, seg, "linux", arch, binaryFile("mc", "")),
     RPM |-> rpmInfo("dnf install", <<"aistor", "mc">>, seg, arch, "mcli", ver),
     DEB |-> debInfo(<<"aistor", "mc">>, seg, arch, "mcli", ver)]

mcEnterpriseDocker(releaseTag) ==
    [Podman |-> textInfo("podman pull",
                         <<imageRef("quay.io/minio/aistor/mc", releaseTag),
                           imageRef("minio/mc", <<>>)>>)]

mcEnterpriseMacOS(seg, arch) ==
    [Homebrew |-> homebrewInfo(<<"aistor", "mc">>, seg, arch, "mc"),
     Binary |-> binInfo("curl", <<"aistor", "mc">>, seg, "darwin", arch, binaryFile("mc", ""))]

mcEnterpriseWindows(seg, arch) ==
    [Binary |-> binInfo("Invoke-WebRequest", <<"aistor", "mc">>, seg, "windows", arch,
                        binaryFile("mc", ".exe"))]

\* the entries of minio-enterprise
kmsLinux(seg, arch) ==
    [Binary |-> binInfo("wget", <<"aistor", "minkms">>, seg, "linux", arch,
                        binaryFile("minkms", ""))]

minioEnterpriseLinux(seg, ver, arch) ==
    [Binary |-> binInfo("wget", <<"aistor", "minio">>, seg, "linux", arch,
                        binaryFile("minio", "")),
     RPM |-> rpmInfo("dnf install", <<"aistor", "minio">>, seg, arch, "minio", ver),
     DEB |-> debInfo(<<"aistor", "minio">>, seg, arch, "minio", ver)]

minioEnterpriseDocker(releaseTag) ==
    [Podman |-> textInfo("podman pull",
                         <<imageRef("quay.io/minio/aistor/minio", releaseTag),
                           imageRef("minio/aistor/minio", <<>>)>>)]

minioEnterpriseMacOS(seg, arch) ==
    [Homebrew |-> homebrewInfo(<<"server", "minio">>, seg, arch, "minio"),
     Binary |-> binInfo("curl", <<"aistor", "minio">>, seg, "darwin", arch,
                        binaryFile("minio", ""))]

minioEnterpriseWindows(seg, arch) ==
    [Binary |-> binInfo("Invoke-WebRequest", <<"aistor", "minio">>, seg, "windows", arch,
                        binaryFile("minio", ".exe"))]

\* d.Subscriptions["Enterprise"] for one of the two enterprise products
enterpriseDownloads(seg, ver, app, releaseTag) ==
    IF app = "mc-enterprise" THEN
        [Kubernetes |-> "AIStor Client" :> EmptyMap,
         Docker |-> "AIStor Client" :>
                      [arch \in {"amd64", "arm64"} |-> mcEnterpriseDocker(releaseTag)],
         Linux |-> "AIStor Client" :>
                      [arch \in {"amd64", "arm64"} |-> mcEnterpriseLinux(seg, ver, arch)],
         MacOS |-> "AIStor Client" :> [arch \in {"arm64"} |-> mcEnterpriseMacOS(seg, arch)],
         Windows |-> "AIStor Client" :>
                      [arch \in {"amd64"} |-> mcEnterpriseWindows(seg, arch)]]
    ELSE IF app = "minio-enterprise" THEN
        [Kubernetes |-> "AIStor Server" :> [arch \in {"amd64", "arm64"} |-> EmptyEntry],
         Docker |-> "AIStor Server" :>
                      [arch \in {"amd64", "arm64"} |-> minioEnterpriseDocker(releaseTag)],
         Linux |-> ("AIStor Server" :>
                      [arch \in {"amd64", "arm64"} |-> minioEnterpriseLinux(seg, ver, arch)])
                   @@ ("MinIO KMS" :> [arch \in {"amd64", "arm64"} |-> kmsLinux(seg, arch)]),
         MacOS |-> "AIStor Server" :>
                      [arch \in {"arm64"} |-> minioEnterpriseMacOS(seg, arch)],
         Windows |-> "AIStor Server" :>
                      [arch \in {"amd64"} |-> minioEnterpriseWindows(seg, arch)]]
    ELSE [Kubernetes |-> EmptyMap, Docker |-> EmptyMap, Linux |-> EmptyMap,
          MacOS |-> EmptyMap, Windows |-> EmptyMap]

generateEnterpriseDownloadsJSON(ver, app, releaseTag, isEdge) ==
    [Subscriptions |->
        [subscription \in {"Enterprise"} |->
            enterpriseDownloads(pathSegment(isEdge), ver, app, releaseTag)]]

\* the entries of generateDownloadsJSON for one product: base is server/minio
\* or client/mc, name the binary, stem the package name
communityLinux(base, name, stem, ver, arch) ==
    [Binary |-> binInfo("wget", base, "release", "linux", arch, binaryFile(name, "")),
     RPM |-> rpmInfo("dnf install", base, "release", arch, stem, ver),
     DEB |-> debInfo(base, "release", arch, stem, ver)]

communityMacOS(base, name, arch) ==
    [Homebrew |-> homebrewInfo(base, "release", arch, name),
     Binary |-> binInfo("curl", base, "release", "darwin", arch, binaryFile(name, ""))]

communityWindows(base, name, arch) ==
    [Binary |-> binInfo("Invoke-WebRequest", base, "release", "windows", arch,
                        binaryFile(name, ".exe"))]

minioKubernetes == [kubectl |-> textInfo("kubectl apply", <<>>)]

minioDocker ==
    [Podman |-> textInfo("podman pull",
                         <<imageRef("quay.io/minio/minio", LATEST),
                           imageRef("minio/minio", <<>>)>>)]

mcKubernetes == [kubectl |-> textInfo("kubectl run", <<imageRef("minio/mc", LATEST)>>)]

mcDocker ==
    [Podman |-> textInfo("podman pull",
                         <<imageRef("quay.io/minio/mc", LATEST), imageRef("minio/mc", <<>>)>>)]

generateDownloadsJSON(ver, app) ==
    IF app = "minio" THEN
        [Kubernetes |-> "MinIO Server" :>
                          [arch \in {"amd64", "arm64", "ppc64le"} |-> minioKubernetes],
         Docker |-> "MinIO Server" :>
                          [arch \in {"amd64", "arm64", "ppc64le"} |-> minioDocker],
         Linux |-> "MinIO Server" :>
                          [arch \in {"amd64", "arm64", "ppc64le"} |->
                              communityLinux(<<"server", "minio">>, "minio", "minio", ver, arch)],
         MacOS |-> "MinIO Server" :>
                          [arch \in {"amd64", "arm64"} |->
                              communityMacOS(<<"server", "minio">>, "minio", arch)],
         Windows |-> "MinIO Server" :>
                          [arch \in {"amd64"} |->
                              communityWindows(<<"server", "minio">>, "minio", arch)]]
    ELSE IF app = "mc" THEN
        [Kubernetes |-> "MinIO Client" :>
                          [arch \in {"amd64", "arm64", "ppc64le"} |-> mcKubernetes],
         Docker |-> "MinIO Client" :>
                          [arch \in {"amd64", "arm64", "ppc64le"} |-> mcDocker],
         Linux |-> "MinIO Client" :>
                          [arch \in {"amd64", "arm64", "ppc64le"} |->
                              communityLinux(<<"client", "mc">>, "mc", "mcli", ver, arch)],
         MacOS |-> "MinIO Client" :>
                          [arch \in {"amd64", "arm64"} |->
                              communityMacOS(<<"client", "mc">>, "mc", arch)],
         Windows |-> "MinIO Client" :>
                          [arch \in {"amd64"} |->
                              communityWindows(<<"client", "mc">>, "mc", arch)]]
    ELSE [Kubernetes |-> EmptyMap, Docker |-> EmptyMap, Linux |-> EmptyMap,
          MacOS |-> EmptyMap, Windows |-> EmptyMap]

\* the entries of generateSidekickDownloadsJSON
sidekickKubernetes(releaseTag) ==
    [kubectl |-> textInfo("kubectl run",
                          <<imageRef("quay.io/minio/aistor/sidekick", releaseTag)>>)]

sidekickDocker(releaseTag) ==
    [Podman |-> textInfo("podman pull",
                         <<imageRef("quay.io/minio/aistor/sidekick", releaseTag),
                           imageRef("quay.io/minio/aistor/sidekick", releaseTag)>>)]

\* as sidekickLinux, with the binary as well
sidekickLinuxWithBinary(ver, arch) ==
    [Binary |-> binInfo("wget", <<"aistor", "sidekick">>, "release", "linux", arch,
                        binaryFile("sidekick", "")),
     RPM |-> rpmInfo("wget", <<"aistor", "sidekick">>, "release", arch, "sidekick", ver),
     DEB |-> debInfo(<<"aistor", "sidekick">>, "release", arch, "sidekick", ver)]

sidekickLinux(ver, arch) ==
    [RPM |-> rpmInfo("wget", <<"aistor", "sidekick">>, "release", arch, "sidekick", ver),
     DEB |-> debInfo(<<"aistor", "sidekick">>, "release", arch, "sidekick", ver)]

\* MacOS is never made: it stays the nil map
generateSidekickDownloadsJSON(ver, releaseTag) ==
    [Kubernetes |-> "MinIO Sidekick" :>
                      [arch \in {"amd64", "arm64"} |-> sidekickKubernetes(releaseTag)],
     Docker |-> "MinIO Sidekick" :>
                      [arch \in {"amd64", "arm64"} |-> sidekickDocker(releaseTag)],
     Linux |-> "MinIO Sidekick" :>
                      [arch \in {"amd64", "arm64"} |-> sidekickLinux(ver, arch)],
     MacOS |-> EmptyMap,
     Windows |-> "MinIO Sidekick" :>
                      [arch \in {"amd64"} |->
                          [Binary |-> binInfo("# Download from", <<"aistor", "sidekick">>,
                                              "release", "windows", arch,
                                              binaryFile("sidekick", ".exe"))]]]

\* the entries of generateWarpDownloadsJSON
warpKubernetes(releaseTag) ==
    [kubectl |-> textInfo("kubectl run", <<imageRef("quay.io/minio/aistor/warp", releaseTag)>>)]

warpDocker(releaseTag) ==
    [Podman |-> textInfo("podman pull",
                         <<imageRef("quay.io/minio/aistor/warp", releaseTag),
                           imageRef("quay.io/minio/aistor/warp", releaseTag)>>)]

\* as warpLinux, without the binary
warpLinuxPackagesOnly(ver, arch) ==
    [RPM |-> rpmInfo("wget", <<"aistor", "warp">>, "release", arch, "warp", ver),
     DEB |-> debInfo(<<"aistor", "warp">>, "release", arch, "warp", ver)]

warpLinux(ver, arch) ==
    [Binary |-> binInfo("wget", <<"aistor", "warp">>, "release", "linux", arch,
                        binaryFile("warp", "")),
     RPM |-> rpmInfo("wget", <<"aistor", "warp">>, "release", arch, "warp", ver),
     DEB |-> debInfo(<<"aistor", "warp">>, "release", arch, "warp", ver)]

generateWarpDownloadsJSON(ver, releaseTag) ==
    [Kubernetes |-> "MinIO Warp" :>
                      [arch \in {"amd64", "arm64"} |-> warpKubernetes(releaseTag)],
     Docker |-> "MinIO Warp" :> [arch \in {"amd64", "arm64"} |-> warpDocker(releaseTag)],
     Linux |-> "MinIO Warp" :> [arch \in {"amd64", "arm64"} |-> warpLinux(ver, arch)],
     MacOS |-> "MinIO Warp" :>
                      [arch \in {"arm64"} |->
                          [Binary |-> binInfo("wget", <<"aistor", "warp">>, "release",
                                              "darwin", arch, binaryFile("warp", ""))]],
     Windows |-> "MinIO Warp" :>
                      [arch \in {"amd64"} |->
                          [Binary |-> binInfo("# Download from", <<"aistor", "warp">>,
                                              "release", "windows", arch,
                                              binaryFile("warp", ".exe"))]]]

\* as marshalDownloads, without omitempty
marshalDownloadsKeepEmpty(x) ==
    [k \in {"Kubernetes", "Docker", "Linux", "macOS", "Windows"} |->
        IF k = "macOS" THEN x.MacOS ELSE x[k]]

\* json.Marshal of a downloadsJSON: Docker and macOS carry omitempty
marshalDownloads(x) ==
    [k \in {"Kubernetes", "Linux", "Windows"}
           \cup (IF DOMAIN x.Docker = {} THEN {} ELSE {"Docker"})
           \cup (IF DOMAIN x.MacOS = {} THEN {} ELSE {"macOS"}) |->
        IF k = "macOS" THEN x.MacOS ELSE x[k]]

\* json.Marshal(&d)
jsonMarshal(x) ==
    IF "Subscriptions" \in DOMAIN x
    THEN [Subscriptions |->
             [s \in DOMAIN x.Subscriptions |-> marshalDownloads(x.Subscriptions[s])]]
    ELSE marshalDownloads(x)

\* the value the recorded call of a generator returns
generated(call) ==
    CASE call.generator = "generateEnterpriseDownloadsJSON" ->
           generateEnterpriseDownloadsJSON(call.version, call.appName, call.releaseTag,
                                           call.isEdge)
      [] call.generator = "generateSidekickDownloadsJSON" ->
           generateSidekickDownloadsJSON(call.version, call.releaseTag)
      [] call.generator = "generateWarpDownloadsJSON" ->
           generateWarpDownloadsJSON(call.version, call.releaseTag)
      [] OTHER -> generateDownloadsJSON(call.version, call.appName)

-----------------------------------------------------------------------------
(* doPackage *)

packagers == Split(packager, ",")

curArch == Archs[archIdx]

curPkger == packagers[pkgIdx]

curPkgName == releasePkgName(appName, semVerTag, curArch, curPkger)

curTgtPath == tgtPathOf(appName, semVerTag, curArch, curPkger)

curLinkPath == Path(archDir(curArch), symlinkName(appName, curPkger))

curShasumPath == Path(archDir(curArch), shasumName(curPkgName))

\* doPackage returns err to its caller
Return(err) ==
    /\ pkgErr' = err
    /\ pc' = IF entry = "main" THEN "afterPackage" ELSE "returned"

\* parseDepsFile fails
DpDepsFail ==
    /\ pc = "doPackage"
    /\ deps # ""
    /\ Return("parseDepsFile")
    /\ UNCHANGED <<flags, fs, archIdx, pkgIdx, semVerTag, attempted, created, d,
                   result, stdout>>

\* the package version: the release without "v" for warp, semVerRelease otherwise
DpVersion ==
    /\ pc = "doPackage"
    /\ LET v == IF appName = "warp"
                THEN [panic |-> FALSE, value |-> TrimPrefix(release, <<"v">>)]
                ELSE semVerRelease(release)
       IN  IF v.panic
           THEN /\ pc' = "panic"
                /\ UNCHANGED <<semVerTag, archIdx>>
           ELSE /\ pc' = "archLoop"
                /\ semVerTag' = v.value
                /\ archIdx' = 1
    /\ UNCHANGED <<flags, fs, pkgIdx, attempted, created, pkgErr, d, result, stdout>>

\* the loop's continue for an architecture the product is not built for
DpSkipArch ==
    /\ pc = "archLoop"
    /\ archIdx <= Len(Archs)
    /\ ~archAllowed(appName, curArch)
    /\ archIdx' = archIdx + 1
    /\ UNCHANGED <<flags, fs, pc, pkgIdx, semVerTag, attempted, created, pkgErr, d,
                   result, stdout>>

\* the template is rendered and nfpm.Parse reads it
DpArchConfig ==
    /\ pc = "archLoop"
    /\ archIdx <= Len(Archs)
    /\ archAllowed(appName, curArch)
    /\ pc' = "pkgLoop"
    /\ pkgIdx' = 1
    /\ UNCHANGED <<flags, fs, archIdx, semVerTag, attempted, created, pkgErr, d,
                   result, stdout>>

\* nfpm.Parse rejects the rendered configuration
DpParseFails ==
    /\ pc = "archLoop"
    /\ archIdx <= Len(Archs)
    /\ archAllowed(appName, curArch)
    /\ Return("nfpm.Parse")
    /\ UNCHANGED <<flags, fs, archIdx, pkgIdx, semVerTag, attempted, created, d,
                   result, stdout>>

\* the packagers of one architecture are done
DpNextArch ==
    /\ pc = "pkgLoop"
    /\ pkgIdx > Len(packagers)
    /\ pc' = "archLoop"
    /\ archIdx' = archIdx + 1
    /\ UNCHANGED <<flags, fs, pkgIdx, semVerTag, attempted, created, pkgErr, d,
                   result, stdout>>

\* all architectures are done
DpReturnNil ==
    /\ pc = "archLoop"
    /\ archIdx > Len(Archs)
    /\ Return("nil")
    /\ UNCHANGED <<flags, fs, archIdx, pkgIdx, semVerTag, attempted, created, d,
                   result, stdout>>

InPkgLoop ==
    /\ pc = "pkgLoop"
    /\ pkgIdx <= Len(packagers)

Attempt == attempted' = attempted \cup {<<curArch, curPkger>>}

\* as PkgValidateFails, returning the error with --ignore too
PkgValidateFailsAlways ==
    /\ InPkgLoop
    /\ curArch \notin present
    /\ Attempt
    /\ Return("nfpm.Validate")
    /\ UNCHANGED <<flags, fs, archIdx, pkgIdx, semVerTag, created, d, result, stdout>>

\* nfpm.Validate fails (the inputs of the architecture are missing): the
\* packager is passed over with --ignore, and the error returned without
PkgValidateFails ==
    /\ InPkgLoop
    /\ curArch \notin present
    /\ Attempt
    /\ IF ignoreMissingArch
       THEN /\ pkgIdx' = pkgIdx + 1
            /\ UNCHANGED <<pc, pkgErr>>
       ELSE /\ Return("nfpm.Validate")
            /\ UNCHANGED pkgIdx
    /\ UNCHANGED <<flags, fs, archIdx, semVerTag, created, d, result, stdout>>

\* os.Create(tgtPath) fails
PkgCreateFails ==
    /\ InPkgLoop
    /\ curArch \in present
    /\ Attempt
    /\ Return("os.Create")
    /\ UNCHANGED <<flags, fs, archIdx, pkgIdx, semVerTag, created, d, result, stdout>>

\* os.Getwd fails after the package file was created
PkgGetwdFails ==
    /\ InPkgLoop
    /\ curArch \in present
    /\ Attempt
    /\ fs' = WriteTo(fs, curTgtPath, <<>>)
    /\ Return("os.Getwd")
    /\ UNCHANGED <<flags, archIdx, pkgIdx, semVerTag, created, d, result, stdout>>

\* the file system once the package file and the symlink to it are made
WithSymlink(f) == Symlink(WriteTo(f, curTgtPath, <<>>), curLinkPath, curPkgName)

\* pkg.Package fails: the package file is removed
PkgPackageFails ==
    /\ InPkgLoop
    /\ curArch \in present
    /\ Attempt
    /\ \E n \in 0..(NumChunks - 1) :
          LET w == multiWrite(packageChunks(curPkgName), n)
          IN  fs' = Remove(WriteTo(WithSymlink(fs), curTgtPath, w.file), curTgtPath)
    /\ Return("pkg.Package")
    /\ UNCHANGED <<flags, archIdx, pkgIdx, semVerTag, created, d, result, stdout>>

\* writing the checksum sidecar fails: the package file is removed; the
\* sidecar is left as the failed write left it
PkgShasumFails ==
    /\ InPkgLoop
    /\ curArch \in present
    /\ Attempt
    /\ \E opened \in BOOLEAN :
          LET w == multiWrite(packageChunks(curPkgName), NumChunks)
              written == WriteTo(WithSymlink(fs), curTgtPath, w.file)
              sidecar == IF opened THEN WriteTo(written, curShasumPath, <<>>)
                         ELSE written
          IN  fs' = Remove(sidecar, curTgtPath)
    /\ Return("os.WriteFile")
    /\ UNCHANGED <<flags, archIdx, pkgIdx, semVerTag, created, d, result, stdout>>

\* the package and its checksum sidecar are written
PkgSucceeds ==
    /\ InPkgLoop
    /\ curArch \in present
    /\ Attempt
    /\ LET w == multiWrite(packageChunks(curPkgName), NumChunks)
           written == WriteTo(WithSymlink(fs), curTgtPath, w.file)
       IN  fs' = WriteTo(written, curShasumPath, shasumLine(w.hash, curPkgName))
    /\ created' = created \cup {curTgtPath}
    /\ pkgIdx' = pkgIdx + 1
    /\ UNCHANGED <<flags, pc, archIdx, semVerTag, pkgErr, d, result, stdout>>

DoPackageNext ==
    \/ DpDepsFail
    \/ DpVersion
    \/ DpSkipArch
    \/ DpArchConfig
    \/ DpParseFails
    \/ DpNextArch
    \/ DpReturnNil
    \/ PkgValidateFails
    \/ PkgCreateFails
    \/ PkgGetwdFails
    \/ PkgPackageFails
    \/ PkgShasumFails
    \/ PkgSucceeds

-----------------------------------------------------------------------------
(* main *)

NoCall == [generator |-> "none", version |-> NoVersion, appName |-> "",
           releaseTag |-> NoVersion, isEdge |-> FALSE]

\* as MainStart, without the test of --no-pkg
MainStartAnyway ==
    /\ pc = "main"
    /\ pc' = IF appName # "warp" THEN "doPackage" ELSE "generate"
    /\ UNCHANGED <<flags, fs, archIdx, pkgIdx, semVerTag, attempted, created, pkgErr,
                   d, result, stdout>>

\* the packages are built unless --no-pkg is set or the product is warp
MainStart ==
    /\ pc = "main"
    /\ pc' = IF ~noPackages /\ appName # "warp" THEN "doPackage" ELSE "generate"
    /\ UNCHANGED <<flags, fs, archIdx, pkgIdx, semVerTag, attempted, created, pkgErr,
                   d, result, stdout>>

\* doPackage returned an error and --ignore is not set: kingpin.Fatalf
MainPackageFatal ==
    /\ pc = "afterPackage"
    /\ pkgErr # "nil"
    /\ ~ignoreMissingArch
    /\ pc' = "fatal"
    /\ UNCHANGED <<flags, fs, archIdx, pkgIdx, semVerTag, attempted, created, pkgErr,
                   d, result, stdout>>

\* doPackage returned nil, or an error that --ignore has logged
MainPackageDone ==
    /\ pc = "afterPackage"
    /\ pkgErr = "nil" \/ ignoreMissingArch
    /\ pc' = "generate"
    /\ UNCHANGED <<flags, fs, archIdx, pkgIdx, semVerTag, attempted, created, pkgErr,
                   d, result, stdout>>

\* the call of the manifest generator that main's switch makes
generatorCall ==
    CASE appName \in {"minio-enterprise", "mc-enterprise"} ->
           LET v == semVerRelease(release)
           IN  IF v.panic THEN [panic |-> TRUE, fatal |-> FALSE]
               ELSE [panic |-> FALSE, fatal |-> FALSE,
                     call |-> [generator |-> "generateEnterpriseDownloadsJSON",
                               version |-> v.value, appName |-> appName,
                               releaseTag |-> release, isEdge |-> edge]]
      [] appName = "sidekick" ->
           LET v == semVerRelease(release)
           IN  IF v.panic THEN [panic |-> TRUE, fatal |-> FALSE]
               ELSE [panic |-> FALSE, fatal |-> FALSE,
                     call |-> [generator |-> "generateSidekickDownloadsJSON",
                               version |-> v.value, appName |-> "",
                               releaseTag |-> release, isEdge |-> FALSE]]
      [] appName = "warp" ->
           LET v == warpVersion(release)
           IN  IF v.fatal THEN [panic |-> FALSE, fatal |-> TRUE]
               ELSE [panic |-> FALSE, fatal |-> FALSE,
                     call |-> [generator |-> "generateWarpDownloadsJSON",
                               version |-> v.value, appName |-> "",
                               releaseTag |-> release, isEdge |-> FALSE]]
      [] OTHER ->
           LET v == semVerRelease(release)
           IN  IF v.panic THEN [panic |-> TRUE, fatal |-> FALSE]
               ELSE [panic |-> FALSE, fatal |-> FALSE,
                     call |-> [generator |-> "generateDownloadsJSON",
                               version |-> v.value, appName |-> appName,
                               releaseTag |-> NoVersion, isEdge |-> FALSE]]

\* main's switch over appName
MainGenerate ==
    /\ pc = "generate"
    /\ LET g == generatorCall
       IN  IF g.panic THEN pc' = "panic" /\ UNCHANGED d
           ELSE IF g.fatal THEN pc' = "fatal" /\ UNCHANGED d
           ELSE pc' = "write" /\ d' = g.call
    /\ UNCHANGED <<flags, fs, archIdx, pkgIdx, semVerTag, attempted, created, pkgErr,
                   result, stdout>>

Generated == [line |-> "Generated downloads metadata at", path |-> outputPath]

\* json.Marshal, os.WriteFile and the closing message
MainWrite ==
    /\ pc = "write"
    /\ fs' = WriteTo(fs, outputPath, jsonMarshal(generated(d)))
    /\ stdout' = Append(stdout, Generated)
    /\ pc' = "done"
    /\ UNCHANGED <<flags, archIdx, pkgIdx, semVerTag, attempted, created, pkgErr, d,
                   result>>

\* os.WriteFile fails; its error is dropped and the message printed all the same
MainWriteFails ==
    /\ pc = "write"
    /\ stdout' = Append(stdout, Generated)
    /\ pc' = "done"
    /\ UNCHANGED <<flags, fs, archIdx, pkgIdx, semVerTag, attempted, created, pkgErr,
                   d, result>>

MainNext ==
    \/ MainStart
    \/ MainPackageFatal
    \/ MainPackageDone
    \/ MainGenerate
    \/ MainWrite
    \/ MainWriteFails

\* semVerRelease called on its own
CallSemVerRelease ==
    /\ pc = "semVerRelease"
    /\ result' = semVerRelease(release)
    /\ pc' = "returned"
    /\ UNCHANGED <<flags, fs, archIdx, pkgIdx, semVerTag, attempted, created, pkgErr,
                   d, stdout>>

-----------------------------------------------------------------------------
(* Inputs *)

EDGE == <<"E", "D", "G", "E">>

Dot == <<".">>

\* a timestamp in the layout 2006-01-02T15-04-05Z from its six digit groups
Stamp(y, mo, dd, hh, mi, ss) ==
    y \o <<"-">> \o mo \o <<"-">> \o dd \o <<"T">> \o hh \o <<"-">> \o mi
      \o <<"-">> \o ss \o <<"Z">>

Y2024 == <<"2", "0", "2", "4">>
Y2025 == <<"2", "0", "2", "5">>

Stamp1 == Stamp(Y2025, <<"0", "3">>, <<"1", "2">>, <<"0", "0">>, <<"0", "0">>, <<"0", "0">>)
Stamp2 == Stamp(Y2025, <<"1", "0">>, <<"1", "0">>, <<"0", "5">>, <<"2", "8">>, <<"2", "3">>)

Hotfix == <<"h", "o", "t", "f", "i", "x">>

V043 == <<"v", "0", ".", "4", ".", "3">>

\* the release values of the runs of main
MainReleases ==
    { RELEASE \o Dot \o Stamp1,
      RELEASE \o Dot \o Stamp1 \o Dot \o Hotfix \o Dot \o <<"1">>,
      EDGE \o Dot \o Stamp2,
      RELEASE,
      V043,
      Tail(V043) }

\* a run of an earlier release left its package, sidecar and symlink behind
OldVersion == <<"o", "l", "d">>

StaleFiles ==
    LET old == releasePkgName(appName, OldVersion, Archs[1], DEB)
    IN  [p \in { Path(archDir(Archs[1]), old),
                 Path(archDir(Archs[1]), shasumName(old)),
                 Path(archDir(Archs[1]), symlinkName(appName, DEB)) } |->
            IF p.name.kind = "symlink" THEN [type |-> "symlink", content |-> old]
            ELSE IF p.name.kind = "sha256sum"
                 THEN [type |-> "file",
                       content |-> shasumLine(packageChunks(old), old)]
                 ELSE [type |-> "file", content |-> packageChunks(old)]]

NoFiles == [p \in {} |-> 0]

InitRun ==
    /\ fs = fs0
    /\ archIdx = 0
    /\ pkgIdx = 0
    /\ semVerTag = NoVersion
    /\ attempted = {}
    /\ created = {}
    /\ pkgErr = "none"
    /\ d = NoCall
    /\ result = [panic |-> FALSE, value |-> NoVersion]
    /\ stdout = <<>>

\* the combinations of --edge, --releaseDir, --deps and left-over files that
\* the runs of main are tried with
RunProfiles ==
    { [edge |-> FALSE, releaseDir |-> "", deps |-> "", stale |-> FALSE],
      [edge |-> TRUE, releaseDir |-> "dist", deps |-> "deps.yaml", stale |-> TRUE] }

InitProfile ==
    \E pr \in RunProfiles :
        /\ edge = pr.edge
        /\ releaseDir = pr.releaseDir
        /\ deps = pr.deps
        /\ fs0 = IF pr.stale THEN StaleFiles ELSE NoFiles

AllArchs == {Archs[i] : i \in 1..Len(Archs)}

\* the state after kingpin has parsed the flags
Init ==
    /\ entry = "main"
    /\ pc = "main"
    /\ appName \in AppNames
    /\ release \in MainReleases
    /\ noPackages \in BOOLEAN
    /\ ignoreMissingArch \in BOOLEAN
    /\ packager \in PackagerValues
    /\ present \in SUBSET AllArchs
    /\ InitProfile
    /\ InitRun

Next == MainNext \/ DoPackageNext

Spec == Init /\ [][Next]_vars

-----------------------------------------------------------------------------
(* semVerRelease on its own, over release tags put together from a marker,  *)
(* a timestamp and further fields                                           *)

MaxExtraFields == 3

Markers == {RELEASE, EDGE, <<>>, <<"r", "e", "l", "e", "a", "s", "e">>}

\* timestamps in the layout's shape, in and out of the calendar's ranges
ShapedStamps ==
    { Stamp(y, mo, dd, hh, mi, ss) :
        y \in {Y2024, Y2025},
        mo \in {<<"0", "2">>, <<"1", "3">>},
        dd \in {<<"2", "9">>, <<"3", "1">>},
        hh \in {<<"2", "3">>, <<"2", "4">>},
        mi \in {<<"5", "9">>},
        ss \in {<<"0", "7">>, <<"6", "0">>} }

\* timestamps out of the layout's shape
OddStamps ==
    { <<>>,
      <<"2", "0", "2", "5">>,
      SubSeq(Stamp1, 1, Len(Stamp1) - 1),
      SubSeq(Stamp1, 1, 11) \o SubSeq(Stamp1, 13, Len(Stamp1)),
      SubSeq(Stamp1, 1, Len(Stamp1) - 1) \o <<",", "5", "Z">>,
      Stamp1 \o <<"Z">> }

Stamps == {Stamp1, Stamp2} \cup ShapedStamps \cup OddStamps

ExtraFieldValues == {Hotfix, <<"1">>, <<>>}

ExtraFields == UNION {[1..n -> ExtraFieldValues] : n \in 0..MaxExtraFields}

SemVerInputs ==
    Markers \cup {Join(<<m, ts>> \o x, Dot) : m \in Markers, ts \in Stamps, x \in ExtraFields}
            \cup Stamps

InitFixedRun ==
    /\ appName = "minio"
    /\ noPackages = FALSE
    /\ ignoreMissingArch = FALSE
    /\ edge = FALSE
    /\ packager = DEB
    /\ releaseDir = ""
    /\ deps = ""
    /\ present = AllArchs
    /\ fs0 = NoFiles
    /\ InitRun

InitSemVer ==
    /\ entry = "semVerRelease"
    /\ pc = "semVerRelease"
    /\ release \in SemVerInputs
    /\ InitFixedRun

SpecSemVer == InitSemVer /\ [][CallSemVerRelease]_vars

-----------------------------------------------------------------------------
(* Runs of main for warp, over every release value of a few characters      *)

MaxReleaseLen == 7

WarpAlphabet == {"v", "0", ".", "a"}

WarpReleases ==
    UNION {[1..n -> WarpAlphabet] : n \in 0..MaxReleaseLen}
        \cup {V043, Tail(V043), <<"v">> \o V043, V043 \o <<"-", "r", "c">>,
              <<"V">> \o Tail(V043), RELEASE \o Dot \o Stamp1}

InitWarp ==
    /\ entry = "main"
    /\ pc = "main"
    /\ appName = "warp"
    /\ release \in WarpReleases
    /\ noPackages \in BOOLEAN
    /\ ignoreMissingArch = FALSE
    /\ edge = FALSE
    /\ packager = DEB
    /\ releaseDir = ""
    /\ deps = ""
    /\ present = AllArchs
    /\ fs0 = NoFiles
    /\ InitRun

NextWarp == MainStart \/ MainGenerate \/ MainWrite \/ MainWriteFails

SpecWarp == InitWarp /\ [][NextWarp]_vars

-----------------------------------------------------------------------------
(* doPackage on its own, for every product *)

PackageReleases == {RELEASE \o Dot \o Stamp1, V043, RELEASE}

InitDoPackage ==
    /\ entry = "doPackage"
    /\ pc = "doPackage"
    /\ appName \in AppNames
    /\ release \in PackageReleases
    /\ noPackages = FALSE
    /\ ignoreMissingArch \in BOOLEAN
    /\ packager \in PackagerValues
    /\ present \in SUBSET AllArchs
    /\ InitProfile
    /\ InitRun

SpecDoPackage == InitDoPackage /\ [][DoPackageNext]_vars

-----------------------------------------------------------------------------
(* Release tags, described by their text *)

CountDots(s) == Cardinality({i \in 1..Len(s) : s[i] = "."})

FirstField(s) ==
    IF CountDots(s) = 0 THEN s
    ELSE SubSeq(s, 1, (CHOOSE i \in 1..Len(s) :
                          s[i] = "." /\ \A j \in 1..(i - 1) : s[j] # ".") - 1)

TwoDigits(s, i) == DigitVal(s[i]) * 10 + DigitVal(s[i + 1])

YearOf(ts) == TwoDigits(ts, 1) * 100 + TwoDigits(ts, 3)

MonthLengths == <<31, 28, 31, 30, 31, 30, 31, 31, 30, 31, 30, 31>>

LeapDay(ts) ==
    /\ TwoDigits(ts, 6) = 2
    /\ TwoDigits(ts, 9) = 29
    /\ YearOf(ts) % 4 = 0
    /\ (YearOf(ts) % 100 # 0 \/ YearOf(ts) % 400 = 0)

\* ts is a point in time written as YYYY-MM-DDThh-mm-ssZ
IsTimestamp(ts) ==
    /\ Len(ts) = 20
    /\ \A i \in {5, 8, 14, 17} : ts[i] = "-"
    /\ ts[11] = "T"
    /\ ts[20] = "Z"
    /\ \A i \in (1..19) \ {5, 8, 11, 14, 17} : isDigit(ts[i])
    /\ TwoDigits(ts, 6) \in 1..12
    /\ TwoDigits(ts, 9) >= 1
    /\ TwoDigits(ts, 9) <= MonthLengths[TwoDigits(ts, 6)] \/ LeapDay(ts)
    /\ TwoDigits(ts, 12) <= 23
    /\ TwoDigits(ts, 15) <= 59
    /\ TwoDigits(ts, 18) <= 59

StampOf(tag, marker) == SubSeq(tag, Len(marker) + 2, Len(marker) + 21)

AfterStamp(tag, marker) == SubSeq(tag, Len(marker) + 22, Len(tag))

\* tag is <marker>.<timestamp> or <marker>.<timestamp>.<a>.<b>
IsTagOf(tag, marker) ==
    /\ Len(tag) >= Len(marker) + 21
    /\ SubSeq(tag, 1, Len(marker)) = marker
    /\ tag[Len(marker) + 1] = "."
    /\ IsTimestamp(StampOf(tag, marker))
    /\ \/ AfterStamp(tag, marker) = <<>>
       \/ /\ Head(AfterStamp(tag, marker)) = "."
          /\ CountDots(AfterStamp(tag, marker)) = 2

\* the 14 digits of the timestamp, ".0.0", and the two further fields if any
VersionOf(tag, marker) ==
    SelectSeq(StampOf(tag, marker), isDigit) \o <<".", "0", ".", "0">>
        \o AfterStamp(tag, marker)

Returned == entry = "semVerRelease" /\ pc = "returned"

\* C1: for a tag RELEASE.<timestamp> or RELEASE.<timestamp>.<a>.<b> whose
\* timestamp is a point in time in the layout YYYY-MM-DDThh-mm-ssZ,
\* semVerRelease returns the timestamp's 14 digits followed by ".0.0", and by
\* ".0.0.<a>.<b>" when the tag has the two further fields.
C1_ReleaseTagVersion ==
    (Returned /\ IsTagOf(release, RELEASE)) =>
        result = [panic |-> FALSE, value |-> VersionOf(release, RELEASE)]

C1_Witness ==
    /\ Returned
    /\ release = RELEASE \o Dot \o Stamp1 \o Dot \o Hotfix \o Dot \o <<"1">>
    /\ ~result.panic
    /\ result.value = SelectSeq(Stamp1, isDigit) \o <<".", "0", ".", "0", ".">>
                        \o Hotfix \o <<".", "1">>

\* C2: semVerRelease takes a tag whose first field is EDGE as it takes one
\* whose first field is RELEASE: EDGE.<timestamp> gives <14 digits>.0.0 and
\* EDGE.<timestamp>.<a>.<b> gives <14 digits>.0.0.<a>.<b>, without a panic.
C2_EdgeTagVersion ==
    (Returned /\ IsTagOf(release, EDGE)) =>
        result = [panic |-> FALSE, value |-> VersionOf(release, EDGE)]

\* C3: semVerRelease returns no version, and panics, for a tag of fewer than
\* two dot-separated fields or whose first field is neither RELEASE nor EDGE.
C3_InvalidTagPanics ==
    (Returned /\ (CountDots(release) < 1 \/ FirstField(release) \notin {RELEASE, EDGE}))
        => result.panic

C3_Witness ==
    /\ Returned
    /\ release \in {Stamp1, RELEASE}
    /\ result.panic

-----------------------------------------------------------------------------
(* The warp release value, described by its text *)

\* s is three groups of digits, none empty, with a dot between them
IsXYZ(s) ==
    /\ Len(s) >= 5
    /\ \A i \in 1..Len(s) : isDigit(s[i]) \/ s[i] = "."
    /\ CountDots(s) = 2
    /\ s[1] # "."
    /\ s[Len(s)] # "."
    /\ \A i \in 1..(Len(s) - 1) : ~(s[i] = "." /\ s[i + 1] = ".")

IsVXYZ(s) == Len(s) >= 1 /\ s[1] = "v" /\ IsXYZ(Tail(s))

ManifestWritten == Exists(fs, outputPath)

WarpRun == entry = "main" /\ appName = "warp"

\* C4: for warp, main takes the release value only if it is v followed by
\* three dot-separated groups of digits, none empty: any other value ends the
\* run in a fatal error with no manifest generated or written, and a value
\* that is taken reaches the manifest generator without its leading v.
C4_WarpReleaseChecked ==
    WarpRun =>
        /\ pc \in {"write", "done"} =>
              /\ IsVXYZ(release)
              /\ d.generator = "generateWarpDownloadsJSON"
              /\ d.version = Tail(release)
              /\ d.releaseTag = release
        /\ pc = "fatal" =>
              /\ ~IsVXYZ(release)
              /\ d = NoCall
              /\ ~ManifestWritten
              /\ stdout = <<>>
        /\ pc # "panic"

C4_Witness ==
    /\ WarpRun
    /\ pc = "done"
    /\ release = V043
    /\ d.version = <<"0", ".", "4", ".", "3">>
    /\ ManifestWritten

-----------------------------------------------------------------------------
(* Packaging *)

MainRun == entry = "main"

\* the architectures each product is packaged for
ProductArchs(app) ==
    IF app \in {"minio", "mc"} THEN {"amd64", "arm64", "ppc64le"} ELSE {"amd64", "arm64"}

\* every architecture of the product with every format asked for
ProductPairs ==
    {<<a, packagers[i]>> : a \in ProductArchs(appName), i \in 1..Len(packagers)}

\* the paths whose file differs from the one the run started with
Touched ==
    {p \in (DOMAIN fs) \cup (DOMAIN fs0) :
        ~(p \in DOMAIN fs /\ p \in DOMAIN fs0 /\ fs[p] = fs0[p])}

\* C5: a run for warp with a valid vX.Y.Z release and without --no-pkg builds
\* the warp packages: when it is done, each of linux-amd64 and linux-arm64
\* holds a package file of every format asked for.
C5_WarpPackagesBuilt ==
    (WarpRun /\ ~noPackages /\ IsVXYZ(release) /\ present = AllArchs /\ pc = "done") =>
        \A a \in {"amd64", "arm64"} : \A i \in 1..Len(packagers) :
            Exists(fs, tgtPathOf("warp", Tail(release), a, packagers[i]))

\* C6: doPackage packages only for the architectures of the product (amd64,
\* arm64 and ppc64le for minio and mc, amd64 and arm64 for the others), and
\* creates, changes or removes no file outside their linux-<arch> directories.
C6_OnlyProductArchs ==
    entry = "doPackage" =>
        /\ \A at \in attempted : at[1] \in ProductArchs(appName)
        /\ \A p \in Touched : \E a \in ProductArchs(appName) : p.dir = archDir(a)

C6_Witness ==
    /\ entry = "doPackage"
    /\ appName = "warp"
    /\ pc = "returned"
    /\ pkgErr = "nil"
    /\ attempted = ProductPairs
    /\ Cardinality(created) = 2 * Len(packagers)

\* the sidecar's path: the package's path with .sha256sum appended
SidecarOf(p) == [p EXCEPT !.name = shasumName(p.name)]

\* C7: next to every package reported as created lies <package>.sha256sum,
\* holding the lowercase hex SHA-256 of the bytes in the package file, two
\* spaces and the package file's base name.
C7_ChecksumSidecar ==
    \A p \in created :
        /\ Exists(fs, p)
        /\ Exists(fs, SidecarOf(p))
        /\ fs[SidecarOf(p)] =
              [type |-> "file",
               content |-> [sum |-> hexEncodeToString(sha256Sum(fs[p].content)),
                            sep |-> "  ", name |-> p.name]]
        /\ Len(fs[p].content) = NumChunks

C7_Witness ==
    /\ MainRun
    /\ pc = "done"
    /\ appName = "mc-enterprise"
    /\ Cardinality(created) = 6

PackagingOver == pkgErr # "none"

\* doPackage has reached its loop over the architectures
LoopEntered == archIdx >= 1

\* C8, as claimed: with --ignore, once packaging has begun, whatever fails,
\* every architecture of the product is attempted with every format asked for.
C8_IgnoreAttemptsAll ==
    (MainRun /\ ignoreMissingArch /\ PackagingOver /\ attempted # {}) =>
        attempted = ProductPairs

\* C8, amended: with --ignore, a failure of nfpm.Validate never ends
\* doPackage, so that a doPackage that meets no other error attempts every
\* architecture of the product with every format asked for; and whatever
\* doPackage returns from its loop over the architectures, main goes on to
\* generate the manifest and to call os.WriteFile for it.
C8_IgnoreSkipsInvalid ==
    (MainRun /\ ignoreMissingArch) =>
        /\ pkgErr # "nfpm.Validate"
        /\ pkgErr = "nil" => attempted = ProductPairs
        /\ (PackagingOver /\ LoopEntered) =>
              /\ pc \in {"afterPackage", "generate", "write", "done"}
              /\ pc = "generate" => ~generatorCall.panic /\ ~generatorCall.fatal
              /\ pc = "done" => stdout = <<Generated>>

C8_Witness ==
    /\ MainRun
    /\ ignoreMissingArch
    /\ present = {"arm64"}
    /\ appName = "minio"
    /\ pc = "done"
    /\ pkgErr = "nil"
    /\ attempted = ProductPairs
    /\ Cardinality(created) = Len(packagers)
    /\ ManifestWritten

\* C9: a run with a valid release tag never ends before the manifest is
\* written, whatever doPackage returned and with or without --ignore.
C9_ManifestAfterAnyError ==
    (MainRun /\ IsTagOf(release, RELEASE) /\ PackagingOver) => pc # "fatal"

\* C10: with --no-pkg nothing is packaged, and no file but the manifest is
\* created, changed or removed.
C10_NoPkgOnlyManifest ==
    (MainRun /\ noPackages) =>
        /\ attempted = {}
        /\ created = {}
        /\ pkgErr = "none"
        /\ Touched \subseteq {outputPath}

C10_Witness ==
    /\ MainRun
    /\ noPackages
    /\ appName = "minio"
    /\ pc = "done"
    /\ DOMAIN fs0 # {}
    /\ Touched = {outputPath}

-----------------------------------------------------------------------------
(* The manifests *)

\* the downloadsJSON values of a manifest, generated or marshalled
SectionsOf(m) ==
    IF "Subscriptions" \in DOMAIN m
    THEN {m.Subscriptions[s] : s \in DOMAIN m.Subscriptions}
    ELSE {m}

\* every dlInfo of a manifest with the place it stands at
EntriesIn(x) ==
    UNION { UNION { UNION { { [section |-> k, product |-> p, arch |-> a, channel |-> c,
                               info |-> x[k][p][a][c]] : c \in DOMAIN x[k][p][a] }
                            : a \in DOMAIN x[k][p] }
                    : p \in DOMAIN x[k] }
            : k \in DOMAIN x }

Entries(m) == UNION { EntriesIn(x) : x \in SectionsOf(m) }

\* the download and checksum URLs of a manifest
URLs(m) ==
    ({e.info.download : e \in Entries(m)} \cup {e.info.cksum : e \in Entries(m)}) \ {NoURL}

\* the URL contains /<segment>/
HasSegment(u, segment) == \E i \in 1..Len(u.path) : u.path[i] = segment

\* the URL starts with https://dl.min.io/<base[1]>/<base[2]>/
StartsWith(u, base) ==
    /\ u.host = "dl.min.io"
    /\ Len(u.path) >= Len(base)
    /\ SubSeq(u.path, 1, Len(base)) = base

\* a generator has been called in this run of main
Called(generator) == MainRun /\ d.generator = generator

\* the manifest this run of main has written
Manifest == fs[outputPath].content

Written == MainRun /\ pc = "done" /\ ManifestWritten

\* C11: every download and checksum URL that generateEnterpriseDownloadsJSON
\* produces contains /edge/ and not /release/ when isEdge is true, and
\* /release/ and not /edge/ when it is false, for both enterprise products.
C11_EnterpriseEdgeSegment ==
    Called("generateEnterpriseDownloadsJSON") =>
        \A u \in URLs(generated(d)) :
            /\ HasSegment(u, "edge") <=> d.isEdge
            /\ HasSegment(u, "release") <=> ~d.isEdge

C11_Witness ==
    /\ Called("generateEnterpriseDownloadsJSON")
    /\ d.appName = "mc-enterprise"
    /\ d.isEdge
    /\ Cardinality(URLs(generated(d))) >= 12
    /\ \A u \in URLs(generated(d)) : HasSegment(u, "edge")

\* C12: with --edge, every download URL of the manifest written to
\* downloads-<appName>-edge.json has the segment /edge/ and not /release/,
\* whichever product is selected.
C12_EdgeManifestAnyProduct ==
    (Written /\ edge) =>
        \A u \in URLs(Manifest) : HasSegment(u, "edge") /\ ~HasSegment(u, "release")

\* the base every URL of the product's manifest is to start with
IsProductBase(app, base) ==
    CASE app = "minio" -> base = <<"server", "minio">>
      [] app = "mc" -> base = <<"client", "mc">>
      [] app \in {"minio-enterprise", "mc-enterprise"} -> base[1] = "aistor"
      [] OTHER -> base = <<"aistor", app>>

\* C13: every download and checksum URL of a written manifest starts with
\* the base of its product: dl.min.io/server/minio/ for minio,
\* dl.min.io/client/mc/ for mc, dl.min.io/aistor/<product>/ for the two
\* enterprise products, for sidekick and for warp.
C13_ProductBase ==
    Written =>
        \A u \in URLs(Manifest) :
            /\ u.host = "dl.min.io"
            /\ Len(u.path) >= 2
            /\ IsProductBase(appName, SubSeq(u.path, 1, 2))

\* the images the Docker/Podman instructions of a manifest name
DockerImages(m) ==
    UNION { {e.info.text.images[i] : i \in 1..Len(e.info.text.images)} :
            e \in {f \in Entries(m) : f.section = "Docker" \/ f.channel = "Podman"} }

\* C14: in every written manifest the Docker/Podman instructions name an
\* image with the release tag of the run, and none with the tag latest.
C14_DockerReleaseTag ==
    Written =>
        /\ \E i \in DockerImages(Manifest) : i.tag = release
        /\ \A i \in DockerImages(Manifest) : i.tag # LATEST

\* https://dl.min.io/aistor/sidekick/release/<dir>/<name><ext><suffix>
SidekickBinaryURL(dir, ext, suffix) ==
    [host |-> "dl.min.io", path |-> <<"aistor", "sidekick", "release", dir>>,
     file |-> [stem |-> "sidekick", sep |-> "", version |-> <<>>, rel |-> "",
               arch |-> "", ext |-> ext],
     suffix |-> suffix]

\* the entries of a section of the manifest, by product and architecture
ArchEntries(m, section) ==
    IF section \in DOMAIN m
    THEN UNION { {m[section][p][a] : a \in DOMAIN m[section][p]} : p \in DOMAIN m[section] }
    ELSE {}

\* the architectures a section of the manifest lists
ArchsOf(m, section) ==
    IF section \in DOMAIN m
    THEN UNION { DOMAIN m[section][p] : p \in DOMAIN m[section] }
    ELSE {}

\* C15: each Linux entry of the sidekick manifest has a Binary download next
\* to RPM and DEB; for amd64 it is
\* https://dl.min.io/aistor/sidekick/release/linux-amd64/sidekick with that
\* URL plus .sha256sum as its checksum.
C15_SidekickLinuxBinary ==
    (Written /\ appName = "sidekick") =>
        /\ \A e \in ArchEntries(Manifest, "Linux") : {"Binary", "RPM", "DEB"} \subseteq DOMAIN e
        /\ \A p \in DOMAIN Manifest.Linux :
              /\ Manifest.Linux[p]["amd64"].Binary.download
                    = SidekickBinaryURL("linux-amd64", "", "")
              /\ Manifest.Linux[p]["amd64"].Binary.cksum
                    = SidekickBinaryURL("linux-amd64", "", ".sha256sum")

C17_SidekickPlatforms ==
    (Written /\ appName = "sidekick") =>
        /\ "macOS" \notin DOMAIN Manifest
        /\ "MacOS" \notin DOMAIN Manifest
        /\ ArchsOf(Manifest, "Linux") = {"amd64", "arm64"}
        /\ ArchsOf(Manifest, "Windows") = {"amd64"}
        /\ \A p \in DOMAIN Manifest.Windows :
              Manifest.Windows[p]["amd64"].Binary.download
                  = SidekickBinaryURL("windows-amd64", ".exe", "")

C17_Witness ==
    /\ Written
    /\ appName = "sidekick"
    /\ DOMAIN Manifest = {"Kubernetes", "Docker", "Linux", "Windows"}
    /\ DOMAIN Manifest.Windows = {"MinIO Sidekick"}
    /\ "ppc64le" \notin ArchsOf(Manifest, "Linux")

\* C18: the warp manifest lists for Linux amd64 and arm64 with the channels
\* Binary, RPM and DEB, for macOS arm64 with Binary, and for Windows amd64
\* with Binary, and nothing else for these platforms.
C18_WarpPlatforms ==
    (Written /\ appName = "warp") =>
        /\ ArchsOf(Manifest, "Linux") = {"amd64", "arm64"}
        /\ \A e \in ArchEntries(Manifest, "Linux") : DOMAIN e = {"Binary", "RPM", "DEB"}
        /\ ArchsOf(Manifest, "macOS") = {"arm64"}
        /\ \A e \in ArchEntries(Manifest, "macOS") : DOMAIN e = {"Binary"}
        /\ ArchsOf(Manifest, "Windows") = {"amd64"}
        /\ \A e \in ArchEntries(Manifest, "Windows") : DOMAIN e = {"Binary"}

C18_Witness ==
    /\ Written
    /\ appName = "warp"
    /\ Cardinality(ArchEntries(Manifest, "Linux")) = 2
    /\ Cardinality(ArchEntries(Manifest, "macOS")) = 1
    /\ Cardinality(ArchEntries(Manifest, "Windows")) = 1

\* the RPM and DEB entries of a manifest
PackageInfos(m) == {e.info : e \in {f \in Entries(m) : f.channel \in {"RPM", "DEB"}}}

\* the URLs of a dlInfo: download, checksum and the one in its text
InfoURLs(i) == {i.download, i.cksum, i.text.url}

\* C19: for every release value main accepts for warp, the file name in every
\* RPM and DEB URL of the manifest carries the release without its leading v.
C19_WarpVersionWithoutV ==
    (Written /\ appName = "warp") =>
        /\ PackageInfos(Manifest) # {}
        /\ \A i \in PackageInfos(Manifest) : \A u \in InfoURLs(i) :
              /\ u.file.version # release
              /\ <<"v">> \o u.file.version = release
              /\ u.file.version[1] # "v"

C19_Witness ==
    /\ Written
    /\ appName = "warp"
    /\ release = V043
    /\ \E i \in PackageInfos(Manifest) :
          /\ i.download.file.stem = "warp"
          /\ i.download.file.version = <<"0", ".", "4", ".", "3">>
          /\ i.download.file.arch = "x86_64"

\* the package name of each product
StemOf(app) ==
    CASE app \in {"mc", "mc-enterprise"} -> "mcli"
      [] app \in {"minio", "minio-enterprise"} -> "minio"
      [] OTHER -> app

\* C20: the package name in the manifest's RPM and DEB URLs is the name
\* doPackage renders into the packaging configuration for the same appName,
\* and the name of the packages it has created: mcli for mc and
\* mc-enterprise, minio for minio and minio-enterprise, sidekick, warp.
C20_ManifestStemIsPackageName ==
    Written =>
        /\ PackageInfos(Manifest) # {}
        /\ \A i \in PackageInfos(Manifest) : \A u \in InfoURLs(i) :
              /\ u.file.stem = tmplApp(appName)
              /\ u.file.stem = StemOf(appName)
              /\ \A p \in created : p.name.app = u.file.stem

C20_Witness ==
    /\ Written
    /\ appName = "mc-enterprise"
    /\ tmplBinary(appName) = "mc"
    /\ created # {}
    /\ \A i \in PackageInfos(Manifest) : i.download.file.stem = "mcli"
    /\ \A p \in created : p.name.app = "mcli"

-----------------------------------------------------------------------------
(* The files a run leaves *)

\* <release directory>/downloads-<appName><suffix>.json
ManifestPath(dir, suffix) ==
    [root |-> dir, dir |-> "",
     name |-> [kind |-> "downloads", app |-> appName, version |-> <<>>,
               arch |-> suffix, ext |-> <<"j", "s", "o", "n">>]]

\* the release directory: --releaseDir, or <product>-release
ReleaseDirOf(app) ==
    IF releaseDir # "" THEN releaseDir
    ELSE CASE app \in {"minio", "minio-enterprise"} -> "minio-release"
           [] app \in {"mc", "mc-enterprise"} -> "mc-release"
           [] app = "sidekick" -> "sidekick-release"
           [] app = "warp" -> "warp-release"

\* the manifest files this run has created or changed
ManifestsTouched == {p \in Touched : p.name.kind = "downloads"}

\* C21: a run writes its manifest to one file and no other:
\* <release directory>/downloads-<appName>.json without --edge and
\* <release directory>/downloads-<appName>-edge.json with it, the release
\* directory being releaseDirName and appName the flag as given.
C21_OneManifestFile ==
    MainRun =>
        /\ ManifestsTouched \subseteq
              {ManifestPath(ReleaseDirOf(appName), IF edge THEN "-edge" ELSE "")}
        /\ ManifestPath(ReleaseDirOf(appName), IF edge THEN "" ELSE "-edge") \notin Touched
        /\ Written =>
              /\ ManifestsTouched = {ManifestPath(releaseDirName, IF edge THEN "-edge" ELSE "")}
              /\ Manifest = jsonMarshal(generated(d))

C21_Witness ==
    /\ Written
    /\ appName = "minio-enterprise"
    /\ ~edge
    /\ releaseDir = ""
    /\ ManifestsTouched = {ManifestPath("minio-release", "")}

\* C22: a run that prints "Generated downloads metadata at <path>" and ends
\* normally has written the manifest to <path>.
C22_SuccessMeansWritten ==
    (MainRun /\ pc = "done" /\ stdout = <<Generated>>) =>
        /\ Exists(fs, Generated.path)
        /\ fs[Generated.path] = [type |-> "file", content |-> jsonMarshal(generated(d))]

\* doPackage has returned an error
ReturnedError == pkgErr \notin {"none", "nil"}

\* the package files the call of doPackage has created and left
PackagesLeft ==
    {p \in Touched : p \in DOMAIN fs /\ p.name.kind = "package"}

\* C23: when doPackage returns an error, every package file it has created
\* and left behind has its complete checksum sidecar.
C23_NoPackageWithoutSidecar ==
    ReturnedError =>
        \A p \in PackagesLeft :
            /\ Exists(fs, SidecarOf(p))
            /\ fs[SidecarOf(p)].content =
                  [sum |-> hexEncodeToString(sha256Sum(fs[p].content)),
                   sep |-> "  ", name |-> p.name]

\* the symlinks the call of doPackage has made
SymlinksMade ==
    {p \in Touched : p \in DOMAIN fs /\ fs[p].type = "symlink"}

\* the file a symlink points to, in the symlink's directory
TargetOf(p) == [p EXCEPT !.name = fs[p].content]

\* C24: once doPackage has returned, with or without an error, every symlink
\* it has made points to a package file that exists in the same directory
\* and is completely written.
C24_SymlinkNeverDangles ==
    (pkgErr # "none") =>
        \A p \in SymlinksMade :
            /\ Exists(fs, TargetOf(p))
            /\ fs[TargetOf(p)].type = "file"
            /\ Len(fs[TargetOf(p)].content) = NumChunks

====
